---- MODULE Spec2Model ----
(***************************************************************************)
(* Model of the Snyk scan provider of the docker scan CLI plugin           *)
(* (internal/provider/snyk.go): NewSnykProvider, Authenticate, Scan,       *)
(* Version and the version gate checkUserSnykBinaryVersion.                *)
(*                                                                         *)
(* Text.  A Go string is modelled as a sequence of pieces.  A piece is     *)
(* either one character ("1", ".", "%", " ", ...) or a literal of the      *)
(* source that holds no '%' and is never looked into ("exit status ",      *)
(* "SNYK_TOKEN=", ...).  Concatenation is \o.  Everything that the code    *)
(* parses (versions, tokens, captured output, format strings) is written   *)
(* one character per piece.                                                *)
(***************************************************************************)
EXTENDS Integers, Sequences, FiniteSets, TLC

(***************************************************************************)
(* Bounds of the model.                                                    *)
(***************************************************************************)
\* largest single-digit component of a generated version number
MaxNum == 1
\* largest non-zero exit code of the scanner subprocess that is enumerated
MaxExit == 2
\* longest captured stderr text of `--version` that is enumerated
MaxStderr == 2

(***************************************************************************)
(* strings / fmt                                                           *)
(***************************************************************************)
Rep(c, n) == [i \in 1..n |-> c]

Digits == <<"0", "1", "2", "3", "4", "5", "6", "7", "8", "9">>

IsDigit(c) == \E i \in 1..10 : Digits[i] = c

DigitVal(c) == (CHOOSE i \in 1..10 : Digits[i] = c) - 1

Letters == {"a", "b", "c", "d", "e", "f", "g", "k", "n", "o", "r", "s", "u", "w", "x",
            "A", "F"}

\* byte order of the characters that can occur in a pre-release identifier
Ord(c) ==
    CASE c = "-" -> 45
      [] IsDigit(c) -> 48 + DigitVal(c)
      [] c = "A" -> 65
      [] c = "F" -> 70
      [] c = "a" -> 97
      [] c = "b" -> 98
      [] c = "c" -> 99
      [] c = "d" -> 100
      [] c = "e" -> 101
      [] c = "f" -> 102
      [] c = "g" -> 103
      [] c = "k" -> 107
      [] c = "n" -> 110
      [] c = "o" -> 111
      [] c = "r" -> 114
      [] c = "s" -> 115
      [] c = "u" -> 117
      [] c = "w" -> 119
      [] c = "x" -> 120
      [] OTHER -> 0

Whitespace == {" ", "\n", "\t"}

RECURSIVE TrimLeft(_)
TrimLeft(s) == IF s # <<>> /\ Head(s) \in Whitespace THEN TrimLeft(Tail(s)) ELSE s

RECURSIVE TrimRight(_)
TrimRight(s) ==
    IF s # <<>> /\ s[Len(s)] \in Whitespace
    THEN TrimRight(SubSeq(s, 1, Len(s) - 1))
    ELSE s

\* strings.TrimSpace
TrimSpace(s) == TrimRight(TrimLeft(s))

\* strings.Split(s, sep)[0]: the text before the first sep, all of s without one
RECURSIVE SplitFirst(_, _)
SplitFirst(s, sep) ==
    IF s = <<>> \/ Head(s) = sep THEN <<>> ELSE <<Head(s)>> \o SplitFirst(Tail(s), sep)

\* the arguments fmt has left over when the format is used up
RECURSIVE ExtraArgs(_)
ExtraArgs(args) ==
    IF args = <<>> THEN <<>>
    ELSE <<"string=">> \o Head(args)
         \o (IF Len(args) > 1 THEN <<", ">> ELSE <<>>) \o ExtraArgs(Tail(args))

\* fmt's doPrintf on a format whose verbs are written "%" then the verb
\* character; the operands are texts (a string, or an error's Error()).
RECURSIVE doPrintf(_, _)
doPrintf(f, args) ==
    IF f = <<>>
    THEN IF args = <<>> THEN <<>> ELSE <<"%!(EXTRA ">> \o ExtraArgs(args) \o <<")">>
    ELSE IF Head(f) # "%"
    THEN <<Head(f)>> \o doPrintf(Tail(f), args)
    ELSE IF Len(f) = 1
    THEN <<"%!(NOVERB)">> \o doPrintf(<<>>, args)
    ELSE LET c == f[2]
             rest == Tail(Tail(f))
         IN  IF c = "%" THEN <<"%">> \o doPrintf(rest, args)
             ELSE IF args = <<>> THEN <<"%!", c, "(MISSING)">> \o doPrintf(rest, args)
             ELSE IF c \in {"s", "v"} THEN Head(args) \o doPrintf(rest, Tail(args))
             ELSE <<"%!", c, "(string=">> \o Head(args) \o <<")">>
                  \o doPrintf(rest, Tail(args))

\* fmt.Sprintf
Sprintf(format, args) == doPrintf(format, args)

\* decimal text of a natural number (strconv / %d)
RECURSIVE Itoa(_)
Itoa(n) == IF n < 10 THEN <<Digits[n + 1]>> ELSE Itoa(n \div 10) \o <<Digits[(n % 10) + 1]>>

(***************************************************************************)
(* errors                                                                  *)
(***************************************************************************)
\* An error value: its dynamic type (kind), the exit code of an
\* *exec.ExitError, and its Error() text.
MkErr(k, c, t) == [kind |-> k, code |-> c, text |-> t]

Nil == MkErr("nil", 0, <<>>)

\* fmt.Errorf: a new *errors.errorString with the formatted text
Errorf(format, args) == MkErr("errorString", 0, Sprintf(format, args))

ExitError(c) == MkErr("ExitError", c, <<"exit status ">> \o Itoa(c))

ErrNotFound == MkErr("ErrNotFound", 0, <<"executable file not found in $PATH">>)

ExecError == MkErr("exec.Error", 0, <<"exec: \"snyk\": executable file not found in $PATH">>)

PathError == MkErr("os.PathError", 0, <<"fork/exec : no such file or directory">>)

OtherError == MkErr("other", 0, <<"signal: killed">>)

\* what cmd.Run can return when the binary cannot be started
StartFailures == {ErrNotFound, ExecError, PathError}

\* what cmd.Run can return
RunErrors == {Nil, OtherError} \cup StartFailures \cup {ExitError(c) : c \in 1..MaxExit}

(***************************************************************************)
(* github.com/google/uuid                                                  *)
(***************************************************************************)
IsHex(c) == IsDigit(c) \/ c \in {"a", "b", "c", "d", "e", "f", "A", "F"}

\* strings.ToLower on the characters of the token alphabet
ToLowerChar(c) ==
    CASE c = "A" -> "a" [] c = "F" -> "f" [] c = "U" -> "u" [] c = "R" -> "r"
      [] c = "N" -> "n" [] c = "I" -> "i" [] c = "D" -> "d" [] OTHER -> c

ToLower(s) == [i \in 1..Len(s) |-> ToLowerChar(s[i])]

UrnPrefix == <<"u", "r", "n", ":", "u", "u", "i", "d", ":">>

\* 0-based offsets of the sixteen hex pairs of the canonical form
HexPairOffsets == {0, 2, 4, 6, 9, 11, 14, 16, 19, 21, 24, 26, 28, 30, 32, 34}

\* uuid.Parse(s): the error it returns (the UUID itself is discarded by the caller)
uuidParse(s) ==
    LET bad(msg) == MkErr("errorString", 0, <<msg>>)
        \* the 36-byte form, s[o] being Go's s[o - 1]
        canonical(t) ==
            IF t[9] # "-" \/ t[14] # "-" \/ t[19] # "-" \/ t[24] # "-"
            THEN bad("invalid UUID format")
            ELSE IF \A x \in HexPairOffsets : IsHex(t[x + 1]) /\ IsHex(t[x + 2])
            THEN Nil
            ELSE bad("invalid UUID format")
    IN  CASE Len(s) = 36 -> canonical(s)
          [] Len(s) = 36 + 9 ->
                IF ToLower(SubSeq(s, 1, 9)) # UrnPrefix
                THEN bad("invalid urn prefix")
                ELSE canonical(SubSeq(s, 10, Len(s)))
          [] Len(s) = 36 + 2 -> canonical(Tail(s))
          [] Len(s) = 32 ->
                IF \A i \in 1..32 : IsHex(s[i]) THEN Nil ELSE bad("invalid UUID format")
          [] OTHER -> bad("invalid UUID length")

(***************************************************************************)
(* github.com/Masterminds/semver/v3                                        *)
(***************************************************************************)
RECURSIVE TakeDigits(_)
TakeDigits(s) ==
    IF s # <<>> /\ IsDigit(Head(s)) THEN <<Head(s)>> \o TakeDigits(Tail(s)) ELSE <<>>

Drop(s, n) == SubSeq(s, n + 1, Len(s))

\* strconv.ParseUint of a non-empty run of digits
RECURSIVE ParseUint(_)
ParseUint(d) ==
    IF Len(d) = 1 THEN DigitVal(d[1])
    ELSE 10 * ParseUint(SubSeq(d, 1, Len(d) - 1)) + DigitVal(d[Len(d)])

IsIdentChar(c) == IsDigit(c) \/ c \in Letters \/ c = "-"

\* strings.Split(s, "."): the list of the texts between the dots
RECURSIVE SplitDots(_)
SplitDots(s) ==
    LET first == SplitFirst(s, ".")
    IN  IF Len(first) = Len(s) THEN <<first>>
        ELSE <<first>> \o SplitDots(Drop(s, Len(first) + 1))

\* [0-9A-Za-z\-]+(\.[0-9A-Za-z\-]+)*
ValidPrerelease(p) ==
    LET parts == SplitDots(p)
    IN  \A i \in 1..Len(parts) :
            parts[i] # <<>> /\ \A j \in 1..Len(parts[i]) : IsIdentChar(parts[i][j])

NoVersion == [ok |-> FALSE, major |-> 0, minor |-> 0, patch |-> 0, pre |-> <<>>]

\* semver.NewVersion: v?N(.N)?(.N)?(-pre)? (build metadata is outside the
\* alphabet of the model); ok is FALSE where it returns ErrInvalidSemVer.
NewVersion(s) ==
    LET s0 == IF s # <<>> /\ Head(s) = "v" THEN Tail(s) ELSE s
        d1 == TakeDigits(s0)
        r1 == Drop(s0, Len(d1))
        d2 == IF r1 # <<>> /\ Head(r1) = "." THEN TakeDigits(Tail(r1)) ELSE <<>>
        r2 == IF d2 # <<>> THEN Drop(r1, 1 + Len(d2)) ELSE r1
        d3 == IF d2 # <<>> /\ r2 # <<>> /\ Head(r2) = "." THEN TakeDigits(Tail(r2)) ELSE <<>>
        r3 == IF d3 # <<>> THEN Drop(r2, 1 + Len(d3)) ELSE r2
        num(d) == IF d = <<>> THEN 0 ELSE ParseUint(d)
    IN  IF d1 = <<>> THEN NoVersion
        ELSE IF r3 = <<>>
        THEN [ok |-> TRUE, major |-> num(d1), minor |-> num(d2), patch |-> num(d3),
              pre |-> <<>>]
        ELSE IF Head(r3) = "-" /\ Tail(r3) # <<>> /\ ValidPrerelease(Tail(r3))
        THEN [ok |-> TRUE, major |-> num(d1), minor |-> num(d2), patch |-> num(d3),
              pre |-> Tail(r3)]
        ELSE NoVersion

\* Version.String()
VersionString(v) ==
    Itoa(v.major) \o <<".">> \o Itoa(v.minor) \o <<".">> \o Itoa(v.patch)
    \o (IF v.pre = <<>> THEN <<>> ELSE <<"-">> \o v.pre)

\* Go's s > o on strings: byte-wise lexicographic order
RECURSIVE TextGreater(_, _)
TextGreater(s, o) ==
    IF s = <<>> THEN FALSE
    ELSE IF o = <<>> THEN TRUE
    ELSE IF Ord(Head(s)) # Ord(Head(o)) THEN Ord(Head(s)) > Ord(Head(o))
    ELSE TextGreater(Tail(s), Tail(o))

IsNumeric(s) == s # <<>> /\ \A i \in 1..Len(s) : IsDigit(s[i])

\* semver's comparePrePart
comparePrePart(s, o) ==
    IF s = o THEN 0
    ELSE IF s = <<>> THEN -1
    ELSE IF o = <<>> THEN 1
    ELSE IF ~IsNumeric(o) /\ ~IsNumeric(s) THEN (IF TextGreater(s, o) THEN 1 ELSE -1)
    ELSE IF ~IsNumeric(o) THEN -1
    ELSE IF ~IsNumeric(s) THEN 1
    ELSE IF ParseUint(s) > ParseUint(o) THEN 1 ELSE -1

RECURSIVE comparePreParts(_, _)
comparePreParts(sp, op) ==
    IF sp = <<>> /\ op = <<>> THEN 0
    ELSE LET st == IF sp = <<>> THEN <<>> ELSE Head(sp)
             ot == IF op = <<>> THEN <<>> ELSE Head(op)
             d == comparePrePart(st, ot)
         IN  IF d # 0 THEN d
             ELSE comparePreParts(IF sp = <<>> THEN <<>> ELSE Tail(sp),
                                  IF op = <<>> THEN <<>> ELSE Tail(op))

\* semver's comparePrerelease
comparePrerelease(v, o) == comparePreParts(SplitDots(v), SplitDots(o))

compareSegment(v, o) == IF v < o THEN -1 ELSE IF v > o THEN 1 ELSE 0

\* Version.Compare
Compare(v, o) ==
    IF compareSegment(v.major, o.major) # 0 THEN compareSegment(v.major, o.major)
    ELSE IF compareSegment(v.minor, o.minor) # 0 THEN compareSegment(v.minor, o.minor)
    ELSE IF compareSegment(v.patch, o.patch) # 0 THEN compareSegment(v.patch, o.patch)
    ELSE IF v.pre = <<>> /\ o.pre = <<>> THEN 0
    ELSE IF v.pre = <<>> THEN 1
    ELSE IF o.pre = <<>> THEN -1
    ELSE comparePrerelease(v.pre, o.pre)

NoConstraint == [ok |-> FALSE, con |-> NoVersion]

\* semver.NewConstraint on the one shape minimalSnykVersion builds: ">=",
\* optional blanks, a version (wildcards are outside the alphabet of the
\* model); ok is FALSE where it returns an "improper constraint" error.
NewConstraint(c) ==
    LET s == TrimSpace(c)
        ver == NewVersion(TrimSpace(Drop(s, 2)))
    IN  IF Len(s) >= 2 /\ SubSeq(s, 1, 2) = <<">", "=">> /\ ver.ok
        THEN [ok |-> TRUE, con |-> ver]
        ELSE NoConstraint

\* semver's constraintGreaterThanEqual
constraintGreaterThanEqual(v, c) ==
    IF v.pre # <<>> /\ c.con.pre = <<>> THEN FALSE ELSE Compare(v, c.con) >= 0

\* Constraints.Check of a ">=" constraint
ConstraintCheck(c, v) == constraintGreaterThanEqual(v, c)

(***************************************************************************)
(* The provider                                                            *)
(***************************************************************************)
VARIABLES
    SnykDesktopVersion, \* the package variable, set when the plugin is linked
    provider,           \* the snykProvider built by NewSnykProvider, or NoProvider
    call                \* the operation this invocation ran: inputs, effects, results

vars == <<SnykDesktopVersion, provider, call>>

NoProvider == [built |-> FALSE, path |-> <<>>, flags |-> <<>>]

\* Options: the binary path and the flag list (context and the output
\* streams carry no decision of the code)
MkOptions(path, flags) == [built |-> TRUE, path |-> path, flags |-> flags]

\* one finished operation
MkCall(op, in, runs, idCalls, err, out, ok) ==
    [op |-> op, in |-> in, runs |-> runs, idCalls |-> idCalls, err |-> err,
     out |-> out, ok |-> ok]

NoCall == MkCall("none", <<>>, <<>>, 0, Nil, <<>>, FALSE)

\* what an operation does: the subprocess runs it made, the number of
\* requests to the identity service, and what it returned
Outcome(runs, idCalls, err, out, ok) ==
    [runs |-> runs, idCalls |-> idCalls, err |-> err, out |-> out, ok |-> ok]

\* cmd.Run(): the command as it was when it ran, and what Run returned
RunCmd(cmd, result) ==
    [path |-> cmd.path, args |-> cmd.args, env |-> cmd.env, result |-> result]

\* a SnykProviderOps value applied to the provider under construction
ApplyOp(p, o) ==
    CASE o.kind = "path" -> [p |-> [p EXCEPT !.path = o.val], err |-> Nil]
      [] o.kind = "flag" -> [p |-> [p EXCEPT !.flags = @ \o <<o.val>>], err |-> Nil]
      [] OTHER -> [p |-> p, err |-> MkErr("errorString", 0, <<"option failed">>)]

RECURSIVE ApplyOps(_, _)
ApplyOps(p, ops) ==
    IF ops = <<>> THEN [p |-> p, err |-> Nil]
    ELSE LET r == ApplyOp(p, Head(ops))
         IN  IF r.err # Nil THEN [p |-> NoProvider, err |-> r.err]
             ELSE ApplyOps(r.p, Tail(ops))

NewSnykProvider(defaultProvider, snykOps) == ApplyOps(defaultProvider, snykOps)

newCommandEnv ==
    << <<"NO_UPDATE_NOTIFIER=true">>, <<"SNYK_CFG_DISABLESUGGESTIONS=true">>,
       <<"SNYK_INTEGRATION_NAME=DOCKER_DESKTOP">> >>

newCommand(s, environ, arg) ==
    [path |-> s.path, args |-> arg, env |-> environ \o newCommandEnv]

CouldNotFind == <<"could not find Snyk binary">>

\* checkCommandErr without the *os.PathError case
checkCommandErr_NoPathError(err) ==
    IF err = Nil THEN Nil
    ELSE IF err = ErrNotFound THEN Errorf(CouldNotFind, <<>>)
    ELSE IF err.kind = "exec.Error" THEN Errorf(CouldNotFind, <<>>)
    ELSE err

\* checkCommandErr that rewraps what it should pass through
checkCommandErr_Rewrap(err) ==
    IF err = Nil THEN Nil
    ELSE IF err.kind \in {"ErrNotFound", "exec.Error", "os.PathError"}
    THEN Errorf(CouldNotFind, <<>>)
    ELSE Errorf(<<"%", "s">>, <<err.text>>)

checkCommandErr(err) ==
    IF err = Nil THEN Nil
    ELSE IF err = ErrNotFound THEN Errorf(CouldNotFind, <<>>)
    ELSE IF err.kind = "exec.Error" THEN Errorf(CouldNotFind, <<>>)
    ELSE IF err.kind = "os.PathError" THEN Errorf(CouldNotFind, <<>>)
    ELSE err

invalidTokenError(token) ==
    MkErr("invalidTokenError", 0, <<"invalid authentication token ">> \o token)

AuthenticateEnv ==
    << <<"SNYK_UTM_MEDIUM=Partner">>, <<"SNYK_UTM_SOURCE=Docker">>,
       <<"SNYK_UTM_CAMPAIGN=Docker-Desktop-2020">> >>

\* Authenticate that starts the subprocess before it looks at the token
Authenticate_RunFirst(s, environ, token, runErr) ==
    LET cmd0 == newCommand(s, environ, <<<<"auth">>, token>>)
        cmd == [cmd0 EXCEPT !.env = @ \o AuthenticateEnv]
    IN  IF token # <<>> /\ uuidParse(token) # Nil
        THEN Outcome(<<RunCmd(cmd, runErr)>>, 0, invalidTokenError(token), <<>>, FALSE)
        ELSE Outcome(<<RunCmd(cmd, runErr)>>, 0, checkCommandErr(runErr), <<>>, FALSE)

Authenticate(s, environ, token, runErr) ==
    IF token # <<>> /\ uuidParse(token) # Nil
    THEN Outcome(<<>>, 0, invalidTokenError(token), <<>>, FALSE)
    ELSE LET cmd0 == newCommand(s, environ, <<<<"auth">>, token>>)
             cmd == [cmd0 EXCEPT !.env = @ \o AuthenticateEnv]
         IN  Outcome(<<RunCmd(cmd, runErr)>>, 0, checkCommandErr(runErr), <<>>, FALSE)

\* json.Unmarshal into snykConfig: a document is modelled by its fields
jsonUnmarshal(doc) ==
    IF ~doc.valid THEN [API |-> <<>>, err |-> MkErr("json.SyntaxError", 0, <<"invalid character">>)]
    ELSE [API |-> IF doc.hasApi THEN doc.api ELSE <<>>, err |-> Nil]

\* conf: whether the home directory resolves, the state of
\* ~/.config/configstore/snyk.json and its content
isAuthenticatedOnSnyk(conf) ==
    IF ~conf.home
    THEN [token |-> <<>>, err |-> MkErr("errorString", 0, <<"$HOME is not defined">>)]
    ELSE IF conf.file = "missing" THEN [token |-> <<>>, err |-> Nil]
    ELSE IF conf.file = "unreadable"
    THEN [token |-> <<>>, err |-> MkErr("os.PathError", 0, <<"permission denied">>)]
    ELSE LET r == jsonUnmarshal(conf.doc)
         IN  IF r.err # Nil THEN [token |-> <<>>, err |-> r.err]
             ELSE [token |-> r.API, err |-> Nil]

LoginRequired ==
    <<"You need to be logged in to Docker Hub to use scan feature.\nplease login to Docker Hub using the Docker Login command">>

\* getToken(Options): a DockerScanID for the user logged in to Docker Hub
getToken(s, hub, idResult) ==
    IF hub # "hub" THEN [token |-> <<>>, err |-> MkErr("authenticationError", 0, LoginRequired)]
    ELSE idResult

\* Scan that asks the identity service only when the token is empty and
\* reading it failed
Scan_And(s, environ, image, conf, hub, idResult, runErr) ==
    LET cmd0 == newCommand(s, environ, s.flags \o <<image>>)
        auth == isAuthenticatedOnSnyk(conf)
    IN  IF auth.token = <<>> /\ auth.err # Nil
        THEN LET t == getToken(s, hub, idResult)
                 cmd == [cmd0 EXCEPT !.env =
                            @ \o <<Sprintf(<<"SNYK_DOCKER_TOKEN=", "%", "s">>, <<t.token>>)>>]
             IN  IF t.err # Nil
                 THEN Outcome(<<>>, 1,
                              Errorf(<<"failed to get DockerScanID: ", "%", "s">>, <<t.err.text>>),
                              <<>>, FALSE)
                 ELSE Outcome(<<RunCmd(cmd, runErr)>>, 1, checkCommandErr(runErr), <<>>, FALSE)
        ELSE LET cmd == [cmd0 EXCEPT !.env =
                            @ \o <<Sprintf(<<"SNYK_TOKEN=", "%", "s">>, <<auth.token>>)>>]
             IN  Outcome(<<RunCmd(cmd, runErr)>>, 0, checkCommandErr(runErr), <<>>, FALSE)

\* Scan that goes on to the subprocess when getToken fails
Scan_IgnoreTokenErr(s, environ, image, conf, hub, idResult, runErr) ==
    LET cmd0 == newCommand(s, environ, s.flags \o <<image>>)
        auth == isAuthenticatedOnSnyk(conf)
    IN  IF auth.token = <<>> \/ auth.err # Nil
        THEN LET t == getToken(s, hub, idResult)
                 cmd == [cmd0 EXCEPT !.env =
                            @ \o <<Sprintf(<<"SNYK_DOCKER_TOKEN=", "%", "s">>, <<t.token>>)>>]
             IN  Outcome(<<RunCmd(cmd, runErr)>>, 1, checkCommandErr(runErr), <<>>, FALSE)
        ELSE LET cmd == [cmd0 EXCEPT !.env =
                            @ \o <<Sprintf(<<"SNYK_TOKEN=", "%", "s">>, <<auth.token>>)>>]
             IN  Outcome(<<RunCmd(cmd, runErr)>>, 0, checkCommandErr(runErr), <<>>, FALSE)

Scan(s, environ, image, conf, hub, idResult, runErr) ==
    LET cmd0 == newCommand(s, environ, s.flags \o <<image>>)
        auth == isAuthenticatedOnSnyk(conf)
    IN  IF auth.token = <<>> \/ auth.err # Nil
        THEN LET t == getToken(s, hub, idResult)
                 cmd == [cmd0 EXCEPT !.env =
                            @ \o <<Sprintf(<<"SNYK_DOCKER_TOKEN=", "%", "s">>, <<t.token>>)>>]
             IN  IF t.err # Nil
                 THEN Outcome(<<>>, 1,
                              Errorf(<<"failed to get DockerScanID: ", "%", "s">>, <<t.err.text>>),
                              <<>>, FALSE)
                 ELSE Outcome(<<RunCmd(cmd, runErr)>>, 1, checkCommandErr(runErr), <<>>, FALSE)
        ELSE LET cmd == [cmd0 EXCEPT !.env =
                            @ \o <<Sprintf(<<"SNYK_TOKEN=", "%", "s">>, <<auth.token>>)>>]
             IN  Outcome(<<RunCmd(cmd, runErr)>>, 0, checkCommandErr(runErr), <<>>, FALSE)

\* Version that runs the command a second time when the first run fails
Version_Retry(s, environ, stdout, stderr, runErr) ==
    LET cmd == newCommand(s, environ, << <<"--version">> >>)
        errMsg0 == Sprintf(<<"failed to get snyk version: ", "%", "s">>,
                           <<checkCommandErr(runErr).text>>)
        errMsg == IF stderr # <<>>
                  THEN Sprintf(errMsg0 \o <<",", "%", "s">>, <<stderr>>)
                  ELSE errMsg0
    IN  IF runErr # Nil
        THEN Outcome(<<RunCmd(cmd, runErr), RunCmd(cmd, runErr)>>, 0, Errorf(errMsg, <<>>),
                     <<>>, FALSE)
        ELSE Outcome(<<RunCmd(cmd, runErr)>>, 0, Nil,
                     Sprintf(<<"Snyk (", "%", "s", ")">>, <<TrimSpace(stdout)>>), FALSE)

Version(s, environ, stdout, stderr, runErr) ==
    LET cmd == newCommand(s, environ, << <<"--version">> >>)
        errMsg0 == Sprintf(<<"failed to get snyk version: ", "%", "s">>,
                           <<checkCommandErr(runErr).text>>)
        errMsg == IF stderr # <<>>
                  THEN Sprintf(errMsg0 \o <<",", "%", "s">>, <<stderr>>)
                  ELSE errMsg0
    IN  IF runErr # Nil
        THEN Outcome(<<RunCmd(cmd, runErr)>>, 0, Errorf(errMsg, <<>>), <<>>, FALSE)
        ELSE Outcome(<<RunCmd(cmd, runErr)>>, 0, Nil,
                     Sprintf(<<"Snyk (", "%", "s", ")">>, <<TrimSpace(stdout)>>), FALSE)

\* cleanVersion without the TrimSpace
cleanVersion_NoTrim(version) == SplitFirst(version, " ")

cleanVersion(version) == SplitFirst(TrimSpace(version), " ")

minimalSnykVersion(desktop) == Sprintf(<<">", "=", "%", "s">>, <<desktop>>)

\* checkUserSnykBinaryVersion that keeps the user's binary when the minimum
\* version cannot be read
checkUserSnykBinaryVersion_KeepOnBadMin(path, environ, desktop, stdout, runErr) ==
    LET cmd == [path |-> path, args |-> << <<"--version">> >>, env |-> environ]
        runs == <<RunCmd(cmd, runErr)>>
        ver == NewVersion(cleanVersion(stdout))
        constraint == NewConstraint(minimalSnykVersion(desktop))
        matchConstraint == ConstraintCheck(constraint, ver)
    IN  IF runErr # Nil THEN Outcome(runs, 0, runErr, <<>>, FALSE)
        ELSE IF ~ver.ok
        THEN Outcome(runs, 0, MkErr("errorString", 0, <<"Invalid Semantic Version">>), <<>>, FALSE)
        ELSE IF ~constraint.ok
        THEN Outcome(runs, 0, MkErr("errorString", 0, <<"improper constraint">>), <<>>, TRUE)
        ELSE IF ~matchConstraint
        THEN Outcome(runs, 0,
                     Errorf(<<"The Snyk version ", "%", "s",
                              " installed on your system is older as the one embedded by Docker Desktop (",
                              "%", "s", "), using embedded Snyk version instead.\n">>,
                            <<VersionString(ver), minimalSnykVersion(desktop)>>),
                     <<>>, matchConstraint)
        ELSE Outcome(runs, 0, Nil, <<>>, matchConstraint)

checkUserSnykBinaryVersion(path, environ, desktop, stdout, runErr) ==
    LET cmd == [path |-> path, args |-> << <<"--version">> >>, env |-> environ]
        runs == <<RunCmd(cmd, runErr)>>
        ver == NewVersion(cleanVersion(stdout))
        constraint == NewConstraint(minimalSnykVersion(desktop))
        matchConstraint == ConstraintCheck(constraint, ver)
    IN  IF runErr # Nil THEN Outcome(runs, 0, runErr, <<>>, FALSE)
        ELSE IF ~ver.ok
        THEN Outcome(runs, 0, MkErr("errorString", 0, <<"Invalid Semantic Version">>), <<>>, FALSE)
        ELSE IF ~constraint.ok
        THEN Outcome(runs, 0, MkErr("errorString", 0, <<"improper constraint">>), <<>>, FALSE)
        ELSE IF ~matchConstraint
        THEN Outcome(runs, 0,
                     Errorf(<<"The Snyk version ", "%", "s",
                              " installed on your system is older as the one embedded by Docker Desktop (",
                              "%", "s", "), using embedded Snyk version instead.\n">>,
                            <<VersionString(ver), minimalSnykVersion(desktop)>>),
                     <<>>, matchConstraint)
        ELSE Outcome(runs, 0, Nil, <<>>, matchConstraint)

\* the exit code the CLI gives `scan` for the error of the provider
ExitCode(err) == IF err = Nil THEN 0 ELSE IF err.kind = "ExitError" THEN err.code ELSE 1

(***************************************************************************)
(* Inputs                                                                  *)
(***************************************************************************)
\* every text of at most n characters of S
TextsUpTo(S, n) == UNION {[1..k -> S] : k \in 0..n}

\* xxxxxxxx-xxxx-xxxx-xxxx-xxxxxxxxxxxx with every hex digit h
Canonical(h) ==
    Rep(h, 8) \o <<"-">> \o Rep(h, 4) \o <<"-">> \o Rep(h, 4) \o <<"-">> \o Rep(h, 4)
    \o <<"-">> \o Rep(h, 12)

\* the tokens given to Authenticate
Tokens ==
    { <<>>,
      Canonical("a"), Canonical("F"), Canonical("7"),
      UrnPrefix \o Canonical("1"),
      <<"U", "R", "N", ":", "U", "U", "I", "D", ":">> \o Canonical("b"),
      <<"{">> \o Canonical("c") \o <<"}">>,
      <<"x">> \o Canonical("c") \o <<"y">>,
      Rep("d", 32),
      \* not UUIDs
      <<"a", "b", "c">>,
      Canonical("g"),
      Rep("a", 36),
      Rep("a", 35),
      Rep("g", 32),
      <<"u", "r", "x", ":", "u", "u", "i", "d", ":">> \o Canonical("1"),
      [Canonical("a") EXCEPT ![36] = "x"],
      <<"{">> \o Canonical("k") \o <<"}">> }

Environs ==
    { << <<"HOME=/home/user">> >>,
      << <<"HOME=/home/user">>, <<"SNYK_TOKEN=", "e", "n", "v">> >> }

Paths == { <<>>, <<"snyk">>, <<"/usr/local/bin/snyk">> }

OptionsSet == {MkOptions(p, f) : p \in {<<>>, <<"snyk">>}, f \in {<<>>, << <<"--json">> >>}}

\* the option functions of the model: set the path, or fail
SnykOps ==
    {[kind |-> "path", val |-> p] : p \in {<<>>, <<"/usr/local/bin/snyk">>}}
    \cup {[kind |-> "fail", val |-> <<>>]}

OpsLists == TextsUpTo(SnykOps, 2)

Images == { <<"alpine:3.10.0">>, <<"scratch">> }

\* the user's ~/.config/configstore/snyk.json as Scan finds it
JsonDocs ==
    { [valid |-> FALSE, hasApi |-> FALSE, api |-> <<>>],
      [valid |-> TRUE, hasApi |-> FALSE, api |-> <<>>],
      [valid |-> TRUE, hasApi |-> TRUE, api |-> <<>>],
      [valid |-> TRUE, hasApi |-> TRUE, api |-> Canonical("a")],
      [valid |-> TRUE, hasApi |-> TRUE, api |-> <<"t", "%", "s">>] }

NoDoc == [valid |-> FALSE, hasApi |-> FALSE, api |-> <<>>]

SnykConfs ==
    { [home |-> FALSE, file |-> "missing", doc |-> NoDoc],
      [home |-> TRUE, file |-> "missing", doc |-> NoDoc],
      [home |-> TRUE, file |-> "unreadable", doc |-> NoDoc] }
    \cup {[home |-> TRUE, file |-> "present", doc |-> d] : d \in JsonDocs}

\* the credential of the host CLI: none, one for another registry, one for Docker Hub
HubAuths == {"none", "other", "hub"}

\* what the identity service answers to a logged-in user
IdResults ==
    { [token |-> <<"d", "s", "i", "d">>, err |-> Nil],
      [token |-> <<>>, err |-> MkErr("errorString", 0, <<"identity service unavailable">>)] }

\* what cmd.Run can return for a binary path: without a path nothing starts
RunOutcomes(path) == IF path = <<>> THEN StartFailures \cup {OtherError} ELSE RunErrors

StderrChars == {"e", "%", "s"}

StderrTexts == TextsUpTo(StderrChars, MaxStderr)

VersionStdouts ==
    { <<>>, <<"\n">>,
      <<"1", ".", "3", "6", "9", ".", "2", "\n">>,
      <<" ", "1", ".", "0", ".", "0", "\t", "\n">>,
      <<"1", ".", "0", " ", "(", "s", ")", "\n">> }

\* what `snyk --version` leaves in the two buffers and what Run returns:
\* the buffer that the code does not read on that path is left at two values
VersionResults(path) ==
    {[stdout |-> o, stderr |-> e, runErr |-> Nil] :
        o \in IF path = <<>> THEN {} ELSE VersionStdouts,
        e \in {<<>>, <<"w", "a", "r", "n">>}}
    \cup {[stdout |-> o, stderr |-> e, runErr |-> r] :
        o \in {<<>>, <<"1", ".", "0", "\n">>}, e \in StderrTexts,
        r \in RunOutcomes(path) \ {Nil}}

VerNums == (0..MaxNum) \cup {10}

Pres == { <<>>, <<"1">>, <<"a">>, <<"a", ".", "1">> }

Versions == [ok : {TRUE}, major : VerNums, minor : VerNums, patch : VerNums, pre : Pres]

Unknown == <<"u", "n", "k", "n", "o", "w", "n">>

\* the values the linker gives SnykDesktopVersion
DesktopVersions ==
    {Unknown, <<>>}
    \cup {VersionString(b) : b \in {v \in Versions : v.major = v.minor /\ v.minor = v.patch}}

Standalone == <<" ", "(", "s", "t", "a", "n", "d", "a", "l", "o", "n", "e", ")", "\n">>

GateStdouts ==
    {VersionString(v) \o <<"\n">> : v \in Versions}
    \cup {VersionString(v) \o Standalone : v \in {w \in Versions : w.minor = 0 /\ w.patch = 0}}
    \cup { <<>>, <<"\n">>, Unknown, <<"v", "1", ".", "1", "\n">>, <<"1">>,
           <<"1", ".", ".", "1">>, <<"1", ".", "1", ".", "1", "-">>,
           <<"1", ".", "1", ".", "1", ".", "1">>, <<"1", ".", "1", ".", "1", "-", "a", ".">>,
           <<" ", "1", "0", ".", "0", ".", "1", " ", "\n">> }

GateResults(path) ==
    {[stdout |-> o, runErr |-> Nil] : o \in IF path = <<>> THEN {} ELSE GateStdouts}
    \cup {[stdout |-> o, runErr |-> r] :
        o \in {<<>>, <<"1", ".", "0", "\n">>}, r \in RunOutcomes(path) \ {Nil}}

(***************************************************************************)
(* One invocation of the plugin: the provider is built, then one           *)
(* operation runs.  The version gate is a function of its inputs alone.    *)
(***************************************************************************)
Done(op, in, r) == MkCall(op, in, r.runs, r.idCalls, r.err, r.out, r.ok)

CallNewSnykProvider ==
    /\ ~provider.built
    /\ call.op = "none"
    /\ \E d \in OptionsSet, ops \in OpsLists :
          LET r == NewSnykProvider(d, ops)
          IN  /\ provider' = r.p
              /\ call' = MkCall("NewSnykProvider", [options |-> d, ops |-> ops],
                                <<>>, 0, r.err, <<>>, FALSE)
    /\ UNCHANGED SnykDesktopVersion

CallAuthenticate ==
    /\ provider.built
    /\ call.op = "NewSnykProvider"
    /\ \E environ \in Environs, token \in Tokens, runErr \in RunOutcomes(provider.path) :
          call' = Done("Authenticate",
                       [environ |-> environ, token |-> token, runErr |-> runErr],
                       Authenticate(provider, environ, token, runErr))
    /\ UNCHANGED <<SnykDesktopVersion, provider>>

CallScan ==
    /\ provider.built
    /\ call.op = "NewSnykProvider"
    /\ \E environ \in Environs, image \in Images, conf \in SnykConfs, hub \in HubAuths,
          idResult \in IdResults, runErr \in RunOutcomes(provider.path) :
          call' = Done("Scan",
                       [environ |-> environ, image |-> image, conf |-> conf, hub |-> hub,
                        idResult |-> idResult, runErr |-> runErr],
                       Scan(provider, environ, image, conf, hub, idResult, runErr))
    /\ UNCHANGED <<SnykDesktopVersion, provider>>

CallVersion ==
    /\ provider.built
    /\ call.op = "NewSnykProvider"
    /\ \E environ \in Environs, p \in VersionResults(provider.path) :
          call' = Done("Version",
                       [environ |-> environ, stdout |-> p.stdout, stderr |-> p.stderr,
                        runErr |-> p.runErr],
                       Version(provider, environ, p.stdout, p.stderr, p.runErr))
    /\ UNCHANGED <<SnykDesktopVersion, provider>>

CallCheckUserSnykBinaryVersion ==
    /\ call.op = "none"
    /\ \E path \in Paths, environ \in Environs :
          \E p \in GateResults(path) :
             call' = Done("checkUserSnykBinaryVersion",
                          [path |-> path, environ |-> environ, desktop |-> SnykDesktopVersion,
                           stdout |-> p.stdout, runErr |-> p.runErr],
                          checkUserSnykBinaryVersion(path, environ, SnykDesktopVersion,
                                                     p.stdout, p.runErr))
    /\ UNCHANGED <<SnykDesktopVersion, provider>>

Init ==
    /\ SnykDesktopVersion = Unknown
    /\ provider = NoProvider
    /\ call = NoCall

Next == CallNewSnykProvider \/ CallAuthenticate \/ CallScan \/ CallVersion

Spec == Init /\ [][Next]_vars

\* the version gate, for every value the linker can give SnykDesktopVersion
InitGate ==
    /\ SnykDesktopVersion \in DesktopVersions
    /\ provider = NoProvider
    /\ call = NoCall

NextGate == CallCheckUserSnykBinaryVersion

SpecGate == InitGate /\ [][NextGate]_vars

(***************************************************************************)
(* Properties                                                              *)
(***************************************************************************)
\* the entries an operation appended to the environment newCommand built
Added(run, environ) == Drop(run.env, Len(environ) + Len(newCommandEnv))

\* the entries of env that set the variable whose "NAME=" piece is name
Setting(env, name) == {i \in 1..Len(env) : Head(env[i]) = name}

\* the local configuration holds a token that can be read
HasLocalToken(conf) ==
    /\ conf.home
    /\ conf.file = "present"
    /\ conf.doc.valid
    /\ conf.doc.hasApi
    /\ conf.doc.api # <<>>

\* the classification of a subprocess error, as the specification words it
Classified(r) ==
    IF r \in StartFailures THEN MkErr("errorString", 0, CouldNotFind) ELSE r

\* text t holds the pieces of u in a row
Contains(t, u) == \E i \in 0..(Len(t) - Len(u)) : SubSeq(t, i + 1, i + Len(u)) = u

ProviderOps == {"Authenticate", "Scan", "Version"}

\* C1: Authenticate validates the token first: a non-empty token that is no
\* UUID gives an invalid-token error and no subprocess run; an empty token or
\* a UUID gives exactly one run of `auth <token>` on the provider's binary.
C1_AuthenticateValidatesFirst ==
    call.op = "Authenticate" =>
        LET t == call.in.token
        IN  IF t # <<>> /\ uuidParse(t) # Nil
            THEN /\ call.err = invalidTokenError(t)
                 /\ call.runs = <<>>
            ELSE /\ Len(call.runs) = 1
                 /\ call.runs[1].args = << <<"auth">>, t >>
                 /\ call.runs[1].path = provider.path

C1_Witness ==
    /\ call.op = "Authenticate"
    /\ call.in.token = Canonical("g")
    /\ call.err.kind = "invalidTokenError"
    /\ call.runs = <<>>

\* C2: Scan passes the token of the local configuration as SNYK_TOKEN and
\* does not ask the identity service; without a readable non-empty token it
\* asks the identity service and passes its token as SNYK_DOCKER_TOKEN; every
\* run gets exactly one of the two from Scan.
C2_ScanCredentialChoice ==
    call.op = "Scan" =>
        /\ IF HasLocalToken(call.in.conf)
           THEN /\ call.idCalls = 0
                /\ Len(call.runs) = 1
                /\ Added(call.runs[1], call.in.environ)
                      = << <<"SNYK_TOKEN=">> \o call.in.conf.doc.api >>
           ELSE /\ call.idCalls = 1
                /\ \A i \in 1..Len(call.runs) :
                      Added(call.runs[i], call.in.environ)
                         = << <<"SNYK_DOCKER_TOKEN=">> \o call.in.idResult.token >>
        /\ \A i \in 1..Len(call.runs) :
              LET added == Added(call.runs[i], call.in.environ)
              IN  Cardinality(Setting(added, "SNYK_TOKEN=")
                              \cup Setting(added, "SNYK_DOCKER_TOKEN=")) = 1

C2_Witness ==
    /\ call.op = "Scan"
    /\ call.in.conf.file = "present"
    /\ call.in.conf.doc.api = <<>>
    /\ call.in.conf.doc.valid
    /\ call.in.hub = "hub"
    /\ Len(call.runs) = 1
    /\ Setting(call.runs[1].env, "SNYK_DOCKER_TOKEN=") # {}

\* C3: Scan relays the exit code of the subprocess: exit 0 gives a nil error,
\* an exit with code c > 0 gives that very exit error, whose code is c.
C3_ScanRelaysExitCode ==
    (call.op = "Scan" /\ Len(call.runs) = 1) =>
        LET r == call.runs[1].result
        IN  /\ r = Nil => (call.err = Nil /\ ExitCode(call.err) = 0)
            /\ r.kind = "ExitError" =>
                  (call.err = r /\ call.err.code = r.code /\ ExitCode(call.err) = r.code)

C3_Witness ==
    /\ call.op = "Scan"
    /\ Len(call.runs) = 1
    /\ call.runs[1].result = ExitError(2)
    /\ call.err = ExitError(2)

\* C4: with no token in the local configuration and no Docker Hub credential
\* `scan` exits 1 with the login message and runs no subprocess; whenever the
\* identity-service token cannot be had, Scan returns an error without a run.
C4_NoTokenNoRun ==
    (call.op = "Scan" /\ ~HasLocalToken(call.in.conf)) =>
        /\ call.in.hub # "hub" =>
              /\ call.runs = <<>>
              /\ ExitCode(call.err) = 1
              /\ Contains(call.err.text, LoginRequired)
        /\ (call.in.hub # "hub" \/ call.in.idResult.err # Nil) =>
              (call.runs = <<>> /\ call.err # Nil)

C4_Witness ==
    /\ call.op = "Scan"
    /\ call.in.conf.file = "present"
    /\ call.in.conf.doc.valid
    /\ call.in.conf.doc.hasApi
    /\ call.in.conf.doc.api = <<>>
    /\ call.in.hub = "other"
    /\ call.runs = <<>>
    /\ ExitCode(call.err) = 1

(***************************************************************************)
(* Semantic-version precedence (semver.org, item 11), stated on the        *)
(* version records and not through the library's Compare.                  *)
(***************************************************************************)
\* precedence of the pre-release tags of Pres: numeric identifiers below
\* alphanumeric ones, a longer list above its prefix, a release above all
PreRank(p) ==
    CASE p = <<"1">> -> 1
      [] p = <<"a">> -> 2
      [] p = <<"a", ".", "1">> -> 3
      [] OTHER -> 4

SemverLess(v, b) ==
    \/ v.major < b.major
    \/ v.major = b.major /\ v.minor < b.minor
    \/ v.major = b.major /\ v.minor = b.minor /\ v.patch < b.patch
    \/ v.major = b.major /\ v.minor = b.minor /\ v.patch = b.patch
       /\ PreRank(v.pre) < PreRank(b.pre)

\* the gate ran on an installed binary that printed version v, the bundled
\* version being b
GateRan(v, b) ==
    /\ call.op = "checkUserSnykBinaryVersion"
    /\ call.in.runErr = Nil
    /\ call.in.desktop = VersionString(b)
    /\ call.in.stdout \in {VersionString(v) \o <<"\n">>, VersionString(v) \o Standalone}

IsWarning(err) == err.kind = "errorString" /\ Head(err.text) = "The Snyk version "

DesktopBase == {v \in Versions : v.major = v.minor /\ v.minor = v.patch}

\* C5 as claimed: the gate accepts the user's binary exactly when v >= b in
\* semantic-version order, and gives false with a warning when v < b.
C5_AcceptsIffAtLeastBundled ==
    \A b \in DesktopBase :
        (call.op = "checkUserSnykBinaryVersion" /\ call.in.desktop = VersionString(b)) =>
            \A v \in Versions :
                GateRan(v, b) =>
                    /\ call.ok <=> ~SemverLess(v, b)
                    /\ SemverLess(v, b) => (~call.ok /\ IsWarning(call.err))

\* C5 as amended: the gate accepts the user's binary exactly when v >= b in
\* semantic-version order and v is a release or b is itself a pre-release;
\* in every other case it gives false with the warning.
C5_AcceptsIffInRange ==
    \A b \in DesktopBase :
        (call.op = "checkUserSnykBinaryVersion" /\ call.in.desktop = VersionString(b)) =>
            \A v \in Versions :
                GateRan(v, b) =>
                    LET inRange == ~SemverLess(v, b) /\ (v.pre = <<>> \/ b.pre # <<>>)
                    IN  /\ call.ok <=> inRange
                        /\ inRange => call.err = Nil
                        /\ ~inRange => (~call.ok /\ IsWarning(call.err))

C5_Witness ==
    /\ call.op = "checkUserSnykBinaryVersion"
    /\ call.in.runErr = Nil
    /\ call.in.desktop = <<"1", ".", "1", ".", "1">>
    /\ call.in.stdout = <<"1", "0", ".", "0", ".", "0", "-", "a", "\n">>
    /\ ~call.ok
    /\ IsWarning(call.err)

\* C6: whenever Authenticate, Scan or Version runs the scanner, the binary
\* path of the provider is not empty.
C6_PathNonEmptyAtInvocation ==
    call.op \in ProviderOps => \A i \in 1..Len(call.runs) : call.runs[i].path # <<>>

\* C7: one call of Authenticate, Scan or Version runs the scanner at most
\* once and asks the identity service at most once; a failed run or a failed
\* token request ends the call with an error.
C7_NoRetry ==
    call.op \in ProviderOps =>
        /\ Len(call.runs) <= 1
        /\ call.idCalls <= 1
        /\ \A i \in 1..Len(call.runs) :
              call.runs[i].result # Nil => (i = Len(call.runs) /\ call.err # Nil)
        /\ (call.op = "Scan" /\ call.idCalls = 1
            /\ getToken(provider, call.in.hub, call.in.idResult).err # Nil)
              => (call.runs = <<>> /\ call.err # Nil)

C7_Witness ==
    /\ call.op = "Version"
    /\ Len(call.runs) = 1
    /\ call.runs[1].result = ExitError(1)
    /\ call.err # Nil

VersionPrefix == <<"failed to get snyk version: ">>

\* C8: Version returns ("Snyk (<trimmed stdout>)", nil) when the run
\* succeeds; when it fails it returns "" and the error "failed to get snyk
\* version: <classified error>" followed by ",<stderr>" exactly when stderr
\* is not empty; the version is non-empty exactly when the error is nil.
C8_VersionResult ==
    call.op = "Version" =>
        /\ call.in.runErr = Nil =>
              /\ call.out = <<"Snyk (">> \o TrimSpace(call.in.stdout) \o <<")">>
              /\ call.err = Nil
        /\ call.in.runErr # Nil =>
              /\ call.out = <<>>
              /\ call.err.text =
                    VersionPrefix \o Classified(call.in.runErr).text
                    \o (IF call.in.stderr # <<>> THEN <<",">> \o call.in.stderr ELSE <<>>)
        /\ call.out # <<>> <=> call.err = Nil

\* C9: Authenticate, Scan and Version classify the error of the run alike:
\* nil stays nil, a binary that cannot be started gives "could not find Snyk
\* binary", anything else is passed through; so Authenticate fails whenever
\* the run exits non-zero or the binary is not found.
C9_UniformClassification ==
    (call.op \in ProviderOps /\ Len(call.runs) = 1) =>
        LET r == call.runs[1].result
            c == Classified(r)
        IN  /\ call.op \in {"Authenticate", "Scan"} => call.err = c
            /\ (call.op = "Version" /\ r # Nil) =>
                  SubSeq(call.err.text, 1, 1 + Len(c.text)) = VersionPrefix \o c.text
            /\ (call.op = "Version" /\ r = Nil) => call.err = Nil
            /\ (call.op = "Authenticate" /\ (r.kind = "ExitError" \/ r \in StartFailures))
                  => call.err # Nil

C9_Witness ==
    /\ call.op = "Authenticate"
    /\ Len(call.runs) = 1
    /\ call.runs[1].result = PathError
    /\ call.err.text = CouldNotFind

\* the texts of GateStdouts that are no version
NotVersions ==
    { <<>>, <<"\n">>, Unknown, <<"1", ".", ".", "1">>, <<"1", ".", "1", ".", "1", "-">>,
      <<"1", ".", "1", ".", "1", ".", "1">>, <<"1", ".", "1", ".", "1", "-", "a", ".">> }

\* C10: the gate returns true exactly when it returns no error; a failed
\* run, an installed version that does not parse and a SnykDesktopVersion
\* that gives no constraint ("unknown") each give false with an error.
C10_TrueIffNoError ==
    call.op = "checkUserSnykBinaryVersion" =>
        /\ call.ok <=> call.err = Nil
        /\ (\/ call.in.runErr # Nil
            \/ call.in.stdout \in NotVersions
            \/ call.in.desktop \in {Unknown, <<>>})
              => (~call.ok /\ call.err # Nil)

C10_Witness ==
    /\ call.op = "checkUserSnykBinaryVersion"
    /\ call.in.desktop = Unknown
    /\ call.in.runErr = Nil
    /\ call.in.stdout = <<"1", "0", ".", "0", ".", "0", "\n">>
    /\ ~call.ok
    /\ call.err # Nil

====
